---- MODULE Spec2Model ----
(***************************************************************************)
(* instarec: scene-frame extraction, perceptual deduplication, card        *)
(* detection and the pipeline that sequences them.                         *)
(*                                                                         *)
(* Two entry points run the frame pipeline:                                *)
(*   "script"  : scripts/extract_frames.py main (segment, then dedupe)     *)
(*   "library" : main.py _run_pipeline -> instarec/frames.py               *)
(*               extract_unique_frames (segment, then copy), then analysis *)
(* scripts/extract_card.py (extract_card and its main) is modelled under   *)
(* CardSpec.                                                               *)
(***************************************************************************)
EXTENDS Integers, Sequences, FiniteSets, TLC

\* ---------------------------------------------------------------- bounds
MaxFrames == 4
MaxThreshold == 4
MaxRegions == 2

\* ------------------------------------------------------- frames and hashes
\* A perceptual fingerprint is a bit vector, written as the set of its set
\* bits.  The sample fingerprints are at Hamming distances 0 to 7.
SampleHashes == { {}, {1}, {1, 2, 3}, {4, 5}, {6, 7}, {4, 5, 6, 7} }

\* A frame file: readable with a fingerprint, or corrupt (Image.open raises).
Corrupt == [ok |-> FALSE, bits |-> {}]
Frames == {[ok |-> TRUE, bits |-> b] : b \in SampleHashes} \cup {Corrupt}

Range(f) == {f[i] : i \in DOMAIN f}

SeqUpTo(S, n) == UNION {[1..k -> S] : k \in 0..n}

\* imagehash.phash of an opened image
phash(frame) == frame.bits

\* abs(h - prev): ImageHash.__sub__ counts the differing bits
Distance(h, prev) == Cardinality((h \ prev) \cup (prev \ h))

IsNovelOffByOne(h, hs, t) == \A i \in 1..Len(hs) : Distance(h, hs[i]) >= t
IsNovelInverted(h, hs, t) == \A i \in 1..Len(hs) : Distance(h, hs[i]) < t
\* all(abs(h - prev) > hash_threshold for prev in hashes)
IsNovel(h, hs, t) == \A i \in 1..Len(hs) : Distance(h, hs[i]) > t

CopyFrameReencoded(frame) == [frame EXCEPT !.bits = @ \ {1}]
\* shutil.copy: the destination holds the source's bytes
CopyFrame(frame) == frame

ExitScratchLeak(s) == s
\* tempfile.TemporaryDirectory.__exit__: the directory is removed
ExitScratch(s) == "removed"

AlwaysAnalyze(paths) == TRUE
\* `if not frame_paths: return {... "media": []}` -- analysis runs otherwise
ShouldAnalyze(paths) == paths # <<>>

\* dedupe_frames as a function of the sorted listing: the kept frames in order
RECURSIVE DedupeFrom(_, _, _, _, _)
DedupeFrom(frames, t, i, hs, out) ==
    IF i > Len(frames) THEN out
    ELSE LET h == phash(frames[i]) IN
         IF IsNovel(h, hs, t)
         THEN DedupeFrom(frames, t, i + 1, Append(hs, h), Append(out, CopyFrame(frames[i])))
         ELSE DedupeFrom(frames, t, i + 1, hs, out)

DedupeFrames(frames, t) == DedupeFrom(frames, t, 1, <<>>, <<>>)

\* ------------------------------------------------------------------ state
VARIABLES
    mode,             \* "script" | "library"
    video_exists,     \* os.path.exists(video)
    hash_threshold,   \* --hash-threshold
    pc,               \* position of the run
    scratch,          \* the TemporaryDirectory: "none" | "exists" | "removed"
    raw,              \* sorted(os.listdir(tmp)): the frames ffmpeg wrote
    idx,              \* frames of raw the loop has processed
    hashes,           \* dedupe_frames: hashes
    kept,             \* dedupe_frames: kept (a count)
    kept_idx,         \* indices of raw copied into the output directory
    out_files,        \* the copies in the output directory, in copy order
    out_dir_created,  \* os.makedirs(output_dir) has run
    frame_paths,      \* the list extract_unique_frames returned
    returned,         \* extract_unique_frames / dedupe_frames has returned
    error,            \* "none" | "missing_input" | "decode" | "image_read"
    invoked,          \* the stages that have been called
    media             \* _run_pipeline's "media"

VARIABLES
    card_pc,          \* position of scripts/extract_card.py
    debug,            \* --debug
    img_w, img_h,     \* img.shape[:2]
    regions,          \* bounding rectangles <<x, y, bw, bh>> of the MSER regions
    result,           \* what extract_card returned
    outcome           \* how extract_card.py's main ended

pipeVars == <<mode, video_exists, hash_threshold, pc, scratch, raw, idx, hashes,
              kept, kept_idx, out_files, out_dir_created, frame_paths, returned,
              error, invoked, media>>

cardVars == <<card_pc, debug, img_w, img_h, regions, result, outcome>>

vars == <<pipeVars, cardVars>>

PipeInit ==
    /\ mode \in {"script", "library"}
    /\ video_exists \in BOOLEAN
    /\ hash_threshold \in 0..MaxThreshold
    /\ pc = "start"
    /\ scratch = "none"
    /\ raw = <<>>
    /\ idx = 0
    /\ hashes = <<>>
    /\ kept = 0
    /\ kept_idx = <<>>
    /\ out_files = <<>>
    /\ out_dir_created = FALSE
    /\ frame_paths = <<>>
    /\ returned = FALSE
    /\ error = "none"
    /\ invoked = {}
    /\ media = <<>>

\* the output directory made before the decoder runs
CheckVideoMakedirsFirst ==
    /\ pc = "start"
    /\ IF video_exists
       THEN /\ pc' = "segment"
            /\ scratch' = "exists"
            /\ error' = error
            /\ out_dir_created' = TRUE
       ELSE /\ pc' = "error"
            /\ error' = "missing_input"
            /\ scratch' = scratch
            /\ out_dir_created' = out_dir_created
    /\ UNCHANGED <<mode, video_exists, hash_threshold, raw, idx, hashes, kept,
                   kept_idx, out_files, frame_paths, returned, invoked, media>>
    /\ UNCHANGED cardVars

\* ------- instarec/frames.py extract_unique_frames and, with the same code,
\* scripts/extract_frames.py main: `if not os.path.exists(video): raise
\* FileNotFoundError`, else the with-block is entered
CheckVideo ==
    /\ pc = "start"
    /\ IF video_exists
       THEN /\ pc' = "segment"
            /\ scratch' = "exists"
            /\ error' = error
       ELSE /\ pc' = "error"
            /\ error' = "missing_input"
            /\ scratch' = scratch
    /\ UNCHANGED <<mode, video_exists, hash_threshold, raw, idx, hashes, kept,
                   kept_idx, out_files, out_dir_created, frame_paths, returned,
                   invoked, media>>
    /\ UNCHANGED cardVars

\* extract_scene_frames: ffmpeg exits 0 having written the frames
SegmentOk ==
    /\ pc = "segment"
    /\ \E fs \in SeqUpTo(Frames, MaxFrames) : raw' = fs
    /\ invoked' = invoked \cup {"segmenter"}
    /\ pc' = IF mode = "script" THEN "dedupe_enter" ELSE "makedirs"
    /\ UNCHANGED <<mode, video_exists, hash_threshold, scratch, idx, hashes, kept,
                   kept_idx, out_files, out_dir_created, frame_paths, returned,
                   error, media>>
    /\ UNCHANGED cardVars

\* extract_scene_frames: subprocess.run(check=True) raises; the with-block
\* unwinds and removes the scratch directory with whatever ffmpeg wrote
SegmentFail ==
    /\ pc = "segment"
    /\ \E fs \in SeqUpTo(Frames, 1) : raw' = fs
    /\ invoked' = invoked \cup {"segmenter"}
    /\ pc' = "error"
    /\ error' = "decode"
    /\ scratch' = ExitScratch(scratch)
    /\ UNCHANGED <<mode, video_exists, hash_threshold, idx, hashes, kept,
                   kept_idx, out_files, out_dir_created, frame_paths, returned,
                   media>>
    /\ UNCHANGED cardVars

\* dedupe_frames, entry: makedirs, hashes = [], kept = 0
dedupe_enter ==
    /\ pc = "dedupe_enter"
    /\ invoked' = invoked \cup {"dedupe"}
    /\ out_dir_created' = TRUE
    /\ hashes' = <<>>
    /\ kept' = 0
    /\ pc' = "dedupe"
    /\ UNCHANGED <<mode, video_exists, hash_threshold, scratch, raw, idx,
                   kept_idx, out_files, frame_paths, returned, error, media>>
    /\ UNCHANGED cardVars

\* dedupe_frames, one iteration of the loop over the sorted listing
dedupe_step ==
    /\ pc = "dedupe"
    /\ idx < Len(raw)
    /\ LET frame == raw[idx + 1] IN
       IF ~frame.ok
       THEN \* Image.open raises; main's with-block unwinds
            /\ pc' = "error"
            /\ error' = "image_read"
            /\ scratch' = ExitScratch(scratch)
            /\ UNCHANGED <<idx, hashes, kept, kept_idx, out_files>>
       ELSE /\ IF IsNovel(phash(frame), hashes, hash_threshold)
               THEN /\ out_files' = Append(out_files, CopyFrame(frame))
                    /\ kept_idx' = Append(kept_idx, idx + 1)
                    /\ hashes' = Append(hashes, phash(frame))
                    /\ kept' = kept + 1
               ELSE UNCHANGED <<out_files, kept_idx, hashes, kept>>
            /\ idx' = idx + 1
            /\ UNCHANGED <<pc, error, scratch>>
    /\ UNCHANGED <<mode, video_exists, hash_threshold, raw, out_dir_created,
                   frame_paths, returned, invoked, media>>
    /\ UNCHANGED cardVars

\* dedupe_frames returns kept; main leaves the with-block and prints
dedupe_return ==
    /\ pc = "dedupe"
    /\ idx = Len(raw)
    /\ returned' = TRUE
    /\ scratch' = ExitScratch(scratch)
    /\ pc' = "done"
    /\ UNCHANGED <<mode, video_exists, hash_threshold, raw, idx, hashes, kept,
                   kept_idx, out_files, out_dir_created, frame_paths, error,
                   invoked, media>>
    /\ UNCHANGED cardVars

\* ------------------------------ instarec/frames.py: extract_unique_frames
\* os.makedirs(output_dir, exist_ok=True); kept = []
makedirs ==
    /\ pc = "makedirs"
    /\ out_dir_created' = TRUE
    /\ frame_paths' = <<>>
    /\ pc' = "copy"
    /\ UNCHANGED <<mode, video_exists, hash_threshold, scratch, raw, idx, hashes,
                   kept, kept_idx, out_files, returned, error, invoked, media>>
    /\ UNCHANGED cardVars

\* one iteration: shutil.copy(src, dest); kept.append(dest)
copy_step ==
    /\ pc = "copy"
    /\ idx < Len(raw)
    /\ out_files' = Append(out_files, CopyFrame(raw[idx + 1]))
    /\ kept_idx' = Append(kept_idx, idx + 1)
    /\ idx' = idx + 1
    /\ UNCHANGED <<mode, video_exists, hash_threshold, pc, scratch, raw, hashes,
                   kept, out_dir_created, frame_paths, returned, error, invoked,
                   media>>
    /\ UNCHANGED cardVars

\* the with-block ends and `return kept`
extract_unique_frames_return ==
    /\ pc = "copy"
    /\ idx = Len(raw)
    /\ frame_paths' = kept_idx
    /\ returned' = TRUE
    /\ scratch' = ExitScratch(scratch)
    /\ pc' = "stage3"
    /\ UNCHANGED <<mode, video_exists, hash_threshold, raw, idx, hashes, kept,
                   kept_idx, out_files, out_dir_created, error, invoked, media>>
    /\ UNCHANGED cardVars

\* ------------------------------------------------ main.py: _run_pipeline
\* `if not frame_paths:` returns with "media": []
short_circuit ==
    /\ pc = "stage3"
    /\ ~ShouldAnalyze(frame_paths)
    /\ media' = <<>>
    /\ pc' = "done"
    /\ UNCHANGED <<mode, video_exists, hash_threshold, scratch, raw, idx, hashes,
                   kept, kept_idx, out_files, out_dir_created, frame_paths,
                   returned, error, invoked>>
    /\ UNCHANGED cardVars

\* analyze_frames(frame_paths): the results of the frames the VLM finds
\* media in, in frame order
analyze ==
    /\ pc = "stage3"
    /\ ShouldAnalyze(frame_paths)
    /\ invoked' = invoked \cup {"analyze"}
    /\ \E found \in SUBSET {p \in Range(frame_paths) : p <= 2} :
          media' = SelectSeq(frame_paths, LAMBDA p : p \in found)
    /\ pc' = "done"
    /\ UNCHANGED <<mode, video_exists, hash_threshold, scratch, raw, idx, hashes,
                   kept, kept_idx, out_files, out_dir_created, frame_paths,
                   returned, error>>
    /\ UNCHANGED cardVars

\* ------------------------------------------ scripts/extract_card.py
\* Ratios are kept exact, as <<numerator, denominator>>.
MIN_AREA_RATIO == <<3, 100>>
ASPECT_MIN == <<6, 10>>
ASPECT_MAX == <<16, 10>>

RatLt(a, b) == a[1] * b[2] < b[1] * a[2]
RatLeq(a, b) == a[1] * b[2] <= b[1] * a[2]
RatEq(a, b) == a[1] * b[2] = b[1] * a[2]

\* The frame sizes and the bounding rectangles cv2.boundingRect may give
\* (width and height at least 1, inside the frame).
FrameSides == {10, 20}
BoxOffsets == {0, 1}
BoxWidths == {1, 3, 4, 5, 8}
BoxHeights == {1, 4, 5}
Rects == {<<x, y, bw, bh>> : x \in BoxOffsets, y \in BoxOffsets,
                             bw \in BoxWidths, bh \in BoxHeights}
RECURSIVE RegionSetsUpTo(_)
RegionSetsUpTo(n) ==
    IF n = 0 THEN {{}}
    ELSE LET prev == RegionSetsUpTo(n - 1)
         IN  prev \cup {s \cup {r} : s \in prev, r \in Rects}
RegionSets == RegionSetsUpTo(MaxRegions)

SetMin(S) == CHOOSE m \in S : \A n \in S : m <= n
SetMax(S) == CHOOSE m \in S : \A n \in S : m >= n

\* boxes[:, 0].min(), boxes[:, 1].min(), boxes[:, 2].max(), boxes[:, 3].max()
UnionBox(rs) ==
    <<SetMin({r[1] : r \in rs}), SetMin({r[2] : r \in rs}),
      SetMax({r[1] + r[3] : r \in rs}), SetMax({r[2] + r[4] : r \in rs})>>

AreaTooSmallInclusive(area_ratio) == RatLeq(area_ratio, MIN_AREA_RATIO)
\* if area_ratio < MIN_AREA_RATIO
AreaTooSmall(area_ratio) == RatLt(area_ratio, MIN_AREA_RATIO)

\* ASPECT_MIN <= aspect <= ASPECT_MAX
AspectInBand(aspect) == RatLeq(ASPECT_MIN, aspect) /\ RatLeq(aspect, ASPECT_MAX)

NoBox == <<0, 0, 0, 0>>

\* extract_card(image_path, debug) on a loaded image of w x h pixels whose
\* MSER regions have the bounding rectangles rs; len is the length of the
\* tuple it returns
extract_card(w, h, rs, dbg) ==
    IF rs = {}
    THEN [found |-> FALSE, box |-> NoBox, score |-> <<0, 1>>, len |-> 2]
    ELSE LET ub == UnionBox(rs)
             bw == ub[3] - ub[1]
             bh == ub[4] - ub[2]
             area_ratio == <<bw * bh, h * w>>
             aspect == <<bw, bh>>
         IN  IF AreaTooSmall(area_ratio)
             THEN [found |-> FALSE, box |-> NoBox, score |-> area_ratio, len |-> 2]
             ELSE IF ~AspectInBand(aspect)
             THEN [found |-> FALSE, box |-> NoBox, score |-> area_ratio, len |-> 2]
             ELSE [found |-> TRUE, box |-> ub, score |-> area_ratio,
                   len |-> IF dbg THEN 3 ELSE 2]

NoResult == [found |-> FALSE, box |-> NoBox, score |-> <<0, 1>>, len |-> 0]

CardInit ==
    /\ card_pc = "start"
    /\ debug \in BOOLEAN
    /\ img_w = 0
    /\ img_h = 0
    /\ regions = {}
    /\ result = NoResult
    /\ outcome = "running"

\* cv2.imread returns None: raise ValueError("Could not load image")
imread_fails ==
    /\ card_pc = "start"
    /\ card_pc' = "done"
    /\ outcome' = "image_read_error"
    /\ UNCHANGED <<debug, img_w, img_h, regions, result>>
    /\ UNCHANGED pipeVars

\* main: result = extract_card(args.frame, debug=args.debug)
call_extract_card ==
    /\ card_pc = "start"
    /\ \E w \in FrameSides, h \in FrameSides, rs \in RegionSets :
          /\ img_w' = w
          /\ img_h' = h
          /\ regions' = rs
          /\ result' = extract_card(w, h, rs, debug)
    /\ card_pc' = "returned"
    /\ UNCHANGED <<debug, outcome>>
    /\ UNCHANGED pipeVars

\* main, after the call: unpack the tuple, then report or write the card
card_main ==
    /\ card_pc = "returned"
    /\ outcome' = IF (debug /\ result.len # 3) \/ (~debug /\ result.len # 2)
                  THEN "unpack_error"       \* ValueError from the unpacking
                  ELSE IF ~result.found
                  THEN "not_found"          \* prints and sys.exit(1)
                  ELSE "card_written"
    /\ card_pc' = "done"
    /\ UNCHANGED <<debug, img_w, img_h, regions, result>>
    /\ UNCHANGED pipeVars

\* ------------------------------------------------------- specifications
PipeIdle ==
    /\ mode = "none"
    /\ video_exists = FALSE
    /\ hash_threshold = 0
    /\ pc = "idle"
    /\ scratch = "none"
    /\ raw = <<>>
    /\ idx = 0
    /\ hashes = <<>>
    /\ kept = 0
    /\ kept_idx = <<>>
    /\ out_files = <<>>
    /\ out_dir_created = FALSE
    /\ frame_paths = <<>>
    /\ returned = FALSE
    /\ error = "none"
    /\ invoked = {}
    /\ media = <<>>

CardIdle ==
    /\ card_pc = "idle"
    /\ debug = FALSE
    /\ img_w = 0
    /\ img_h = 0
    /\ regions = {}
    /\ result = NoResult
    /\ outcome = "idle"

Init == PipeInit /\ CardIdle

Next ==
    \/ CheckVideo
    \/ SegmentOk
    \/ SegmentFail
    \/ dedupe_enter
    \/ dedupe_step
    \/ dedupe_return
    \/ makedirs
    \/ copy_step
    \/ extract_unique_frames_return
    \/ short_circuit
    \/ analyze

Spec == Init /\ [][Next]_vars

CardSpecInit == CardInit /\ PipeIdle

CardNext ==
    \/ imread_fails
    \/ call_extract_card
    \/ card_main

CardSpec == CardSpecInit /\ [][CardNext]_vars

\* ------------------------------------------------------------- properties
fp(i) == phash(raw[i])
Far(i, j) == Distance(fp(i), fp(j)) > hash_threshold
InScript == mode = "script"
InLibrary == mode = "library"
\* extract_unique_frames, or the script's main, has finished
Finished == pc \in {"stage3", "done", "error"}

\* C1: at every step of the script's deduplication pass, a processed frame is
\* kept iff its fingerprint is strictly farther than hash_threshold from every
\* frame kept before it; so no two kept frames are within hash_threshold, the
\* first frame is kept, the kept indices only grow in order, and the decision
\* on a processed frame stands.
DedupeKeepsIffFar ==
    InScript =>
        /\ Len(kept_idx) = kept
        /\ Len(hashes) = kept
        /\ Len(out_files) = kept
        /\ \A k \in 1..Len(kept_idx) :
              /\ kept_idx[k] \in 1..idx
              /\ hashes[k] = fp(kept_idx[k])
              /\ out_files[k] = raw[kept_idx[k]]
              /\ k > 1 => kept_idx[k - 1] < kept_idx[k]
        /\ \A i \in 1..idx :
              i \in Range(kept_idx) <=>
                  \A j \in Range(kept_idx) : j < i => Far(i, j)
        /\ \A i \in Range(kept_idx), j \in Range(kept_idx) : i # j => Far(i, j)
        /\ idx >= 1 => 1 \in Range(kept_idx)

DedupeKeepsIffFarWitness ==
    /\ InScript
    /\ pc = "done"
    /\ Len(raw) = MaxFrames
    /\ hash_threshold = 2
    /\ kept_idx = <<1, 3>>

\* C2 (as stated): for thresholds t1 <= t2 the pass keeps no more frames
\* with t2 than with t1.
KeptCountMonotone ==
    (InScript /\ pc = "done") =>
        \A t2 \in hash_threshold..MaxThreshold :
            Len(DedupeFrames(raw, t2)) <= kept

\* C2 (amended): for thresholds t1 <= t2 with t2 = t1 or t2 >= 2 * t1 the
\* pass keeps no more frames with t2 than with t1.
KeptCountMonotoneDoubled ==
    (InScript /\ pc = "done") =>
        \A t2 \in hash_threshold..MaxThreshold :
            (t2 = hash_threshold \/ t2 >= 2 * hash_threshold) =>
                Len(DedupeFrames(raw, t2)) <= kept

KeptCountMonotoneDoubledWitness ==
    /\ InScript
    /\ pc = "done"
    /\ hash_threshold = 1
    /\ kept = 3
    /\ Len(DedupeFrames(raw, 2)) = 2

\* C3: deduplication is idempotent: a second pass over the files the first
\* pass wrote, with the same threshold, keeps every one of them in order.
DedupeIdempotent ==
    (InScript /\ pc = "done") =>
        DedupeFrames(out_files, hash_threshold) = out_files

DedupeIdempotentWitness ==
    /\ InScript
    /\ pc = "done"
    /\ kept = 2
    /\ Len(raw) = 4
    /\ hash_threshold = 3
    /\ DedupeFrames(out_files, hash_threshold) = out_files

\* what extract_card's caller must see, stated from the frame and its regions
CardExpected(w, h, rs, r) ==
    IF rs = {}
    THEN ~r.found /\ r.score = <<0, 1>>
    ELSE LET ub == UnionBox(rs)
             bw == ub[3] - ub[1]
             bh == ub[4] - ub[2]
         IN  /\ r.found <=>
                   /\ 100 * bw * bh >= 3 * w * h
                   /\ 10 * bw >= 6 * bh
                   /\ 10 * bw <= 16 * bh
             /\ r.found => r.box = ub
             /\ r.score[1] * (w * h) = (bw * bh) * r.score[2]

\* C4: extract_card returns a crop iff area_ratio >= MIN_AREA_RATIO and
\* ASPECT_MIN <= aspect <= ASPECT_MAX (bounds inclusive); the score is
\* area_ratio whether accepted or rejected, and 0.0 with no crop when there
\* are no regions.
CardIffAreaAndAspect ==
    card_pc \in {"returned", "done"} /\ outcome # "image_read_error" =>
        CardExpected(img_w, img_h, regions, result)

\* accepted exactly at the minimum area ratio
CardIffAreaAndAspectWitness ==
    /\ card_pc = "returned"
    /\ regions # {}
    /\ result.found
    /\ RatEq(result.score, MIN_AREA_RATIO)

\* C5 (as stated): for a loadable frame, extract_card.py's main ends with a
\* crop written or with not-found, never with an exception, with or without
\* --debug.
CardNeverRaises ==
    (card_pc = "done" /\ outcome # "image_read_error") =>
        outcome \in {"card_written", "not_found"}

\* C6 (as stated): the frame paths the run hands on never hold two frames
\* whose fingerprints are within hash_threshold.
ReturnedFramesFarApart ==
    (InLibrary /\ returned) =>
        \A a \in 1..Len(frame_paths), b \in 1..Len(frame_paths) :
            (a < b /\ raw[frame_paths[a]].ok /\ raw[frame_paths[b]].ok) =>
                Far(frame_paths[a], frame_paths[b])

FatalErrorLeavesNothing ==
    error \in {"missing_input", "decode"} =>
        /\ pc = "error"
        /\ ~out_dir_created
        /\ out_files = <<>>
        /\ ~returned
        /\ frame_paths = <<>>
        /\ invoked \subseteq {"segmenter"}

FatalErrorLeavesNothingWitness ==
    /\ error = "decode"
    /\ raw # <<>>
    /\ InLibrary

\* C9 (as stated): a run ends by returning, or with one of the two fatal
\* error kinds; an unreadable frame does not abort it with a third kind.
OnlyTwoFatalErrors ==
    pc = "error" => error \in {"missing_input", "decode"}

\* C10: once extract_unique_frames (or the script's main) has finished, by
\* return or by error, the scratch directory does not exist, and every path
\* returned names a file in the output directory holding that frame.
ScratchRemovedAndPathsExist ==
    Finished =>
        /\ scratch # "exists"
        /\ returned =>
              /\ out_dir_created
              /\ \A a \in 1..Len(frame_paths) :
                    \E k \in 1..Len(kept_idx) :
                        /\ kept_idx[k] = frame_paths[a]
                        /\ out_files[k] = raw[frame_paths[a]]
              /\ InScript => kept = Len(out_files)

ScratchRemovedAndPathsExistWitness ==
    /\ pc = "done"
    /\ InLibrary
    /\ scratch = "removed"
    /\ Len(frame_paths) = 3

====
